---- MODULE Spec2Model ----
(***************************************************************************)
(* A model of monitor-control-win: the identifier codec (wide strings and  *)
(* monitor interface names), the GDI monitor and display-device            *)
(* enumerations, the registry walk that discovers monitors, the EDID       *)
(* lookup, the SetupAPI and GDI queries of a display device, the           *)
(* fixed-point decoder and the listing of physical monitors.               *)
(*                                                                         *)
(* Strings are sequences of code points, wide-character buffers are        *)
(* sequences of UTF-16 code units.  The operating system is a snapshot     *)
(* `host` chosen when an operation is called; the operation then runs      *)
(* step by step against that snapshot and leaves its outcome in `result`.  *)
(***************************************************************************)
EXTENDS Integers, Sequences, FiniteSets, TLC

VARIABLES
    op,      \* the operation being run (or last run) by the caller
    pc,      \* position inside that operation
    arg,     \* the arguments the caller passed
    host,    \* what the operating system answers during this call
    i,       \* loop / enumeration index of the running operation
    list,    \* the accumulator the running operation pushes into
    calls,   \* the host calls made so far by the running operation
    result   \* the value the operation returned (or its panic)

vars == <<op, pc, arg, host, i, list, calls, result>>

\* ------------------------------------------------------------------ bounds
MaxIdLen == 2        \* longest driver id / monitor id of a generated name
MaxGuidLen == 2      \* longest text between the braces of a generated name
MaxMonitors == 2     \* most virtual monitors a host enumerates
MaxDevices == 3      \* most display-device indices a host answers for
MaxDrivers == 2      \* most driver keys under the enumeration root
MaxSubKeys == 2      \* most sub-keys under one driver key
MaxEdidLen == 2      \* longest EDID block a host stores
MaxTextLen == 3      \* most code units before the terminator of a buffer
MaxTailLen == 2      \* most code units after the terminator of a buffer
MaxSmallFxp == 3     \* the fixed-point inputs next to zero: -MaxSmallFxp .. MaxSmallFxp
MaxPhysical == 2     \* most physical monitors behind one virtual monitor

\* ------------------------------------------------------------ generic helpers
Range(s) == { s[k] : k \in DOMAIN s }

SeqsUpTo(S, lo, hi) == UNION { [1..k -> S] : k \in lo..hi }

Max(S) == CHOOSE x \in S : \A y \in S : y <= x

Min(S) == CHOOSE x \in S : \A y \in S : x <= y

\* Result<T, E> and a panic that unwinds out of the operation
Ok(v) == [tag |-> "Ok", val |-> v]
Err(e) == [tag |-> "Err", err |-> e]
Panicked == [tag |-> "Panic"]
Pending == [tag |-> "Pending"]

\* `iter.collect::<Result<Vec<_>, _>>()`: the first Err in order, else all values
RECURSIVE CollectFrom(_, _)
CollectFrom(rs, k) ==
    IF k > Len(rs) THEN Ok([j \in 1..Len(rs) |-> rs[j].val])
    ELSE IF rs[k].tag = "Err" THEN rs[k]
    ELSE CollectFrom(rs, k + 1)

Collect(rs) == CollectFrom(rs, 1)

\* ------------------------------------------------------------- code points
Hash == 35
Amp == 38
LBrace == 123
RBrace == 125
LineFeed == 10
Nul == 0

UpperRange == 65..90      \* A-Z
LowerRange == 97..122     \* a-z
DigitRange == 48..57      \* 0-9

\* \\?\DISPLAY
Prefix == <<92, 92, 63, 92, 68, 73, 83, 80, 76, 65, 89>>

\* -------------------------------------------------------- wchars_to_string
\* String::from_utf16_lossy: a surrogate pair is one code point, an unpaired
\* surrogate is U+FFFD, every other unit is itself.
IsHighSurrogate(u) == u >= 55296 /\ u <= 56319
IsLowSurrogate(u) == u >= 56320 /\ u <= 57343

RECURSIVE Utf16LossyFrom(_, _)
Utf16LossyFrom(w, k) ==
    IF k > Len(w) THEN <<>>
    ELSE IF IsHighSurrogate(w[k]) /\ k < Len(w) /\ IsLowSurrogate(w[k + 1])
         THEN <<65536 + (w[k] - 55296) * 1024 + (w[k + 1] - 56320)>> \o Utf16LossyFrom(w, k + 2)
    ELSE IF IsHighSurrogate(w[k]) \/ IsLowSurrogate(w[k])
         THEN <<65533>> \o Utf16LossyFrom(w, k + 1)
    ELSE <<w[k]>> \o Utf16LossyFrom(w, k + 1)

from_utf16_lossy(w) == Utf16LossyFrom(w, 1)

NulEndLastZeroMut(wchars) ==
    LET zeros == { k \in 1..Len(wchars) : wchars[k] = Nul }
    IN  IF zeros = {} THEN Len(wchars) ELSE Max(zeros) - 1

\* position of the first zero unit, or the buffer length when there is none
NulEnd(wchars) ==
    LET zeros == { k \in 1..Len(wchars) : wchars[k] = Nul }
    IN  IF zeros = {} THEN Len(wchars) ELSE Min(zeros) - 1

wchars_to_string(wchars) == from_utf16_lossy(SubSeq(wchars, 1, NulEnd(wchars)))

\* ------------------------------------------------- Monitor::from_interface_name
InDriverClassNoDigitsMut(c) == c \in UpperRange

InDriverClassWithLowerMut(c) == c \in UpperRange \cup DigitRange \cup LowerRange

\* [A-Z0-9]
InDriverClass(c) == c \in UpperRange \cup DigitRange

\* [A-Za-z0-9&]
InMonitorClass(c) == c \in UpperRange \cup LowerRange \cup DigitRange \cup {Amp}

\* `.` of the regex crate without the s flag: any character but a line feed
DotMatches(c) == c # LineFeed

\* The pairs <<a, b>> for which the pattern matches the whole of `name` with
\* the first # closing the driver id at position a and the second # closing
\* the monitor id at position b.
RE_matches(name) ==
    LET n == Len(name)
        P == Len(Prefix)
    IN  { s \in (1..n) \X (1..n) :
            /\ n >= P + 1
            /\ SubSeq(name, 1, P) = Prefix                       \* ^ \\?\DISPLAY
            /\ name[P + 1] = Hash                                \* #
            /\ s[1] > P + 2                                      \* (?P<d>[A-Z0-9]+)
            /\ \A k \in (P + 2)..(s[1] - 1) : InDriverClass(name[k])
            /\ name[s[1]] = Hash                                 \* #
            /\ s[2] > s[1] + 1                                   \* (?P<m>[A-Za-z0-9&]+)
            /\ \A k \in (s[1] + 1)..(s[2] - 1) : InMonitorClass(name[k])
            /\ name[s[2]] = Hash                                 \* #
            /\ n >= s[2] + 2
            /\ name[s[2] + 1] = LBrace                           \* \{
            /\ \A k \in (s[2] + 2)..(n - 1) : DotMatches(name[k]) \* .*?
            /\ name[n] = RBrace }                                \* \} $

\* RE.captures(name): None, or the groups d and m (both + are greedy)
RE_captures(name) ==
    LET ms == RE_matches(name)
    IN  IF ms = {} THEN [some |-> FALSE]
        ELSE LET a == Max({ s[1] : s \in ms })
                 b == Max({ s[2] : s \in { t \in ms : t[1] = a } })
             IN  [some |-> TRUE,
                  d |-> SubSeq(name, Len(Prefix) + 2, a - 1),
                  m |-> SubSeq(name, a + 1, b - 1)]

InvalidInterface(raw) == [kind |-> "InvalidInterface", raw |-> raw]

MonitorIdentity(driver_id, id) == [driver_id |-> driver_id, id |-> id]

from_interface_name(name) ==
    LET caps == RE_captures(name)
    IN  IF ~caps.some THEN Err(InvalidInterface(name))
        ELSE Ok(MonitorIdentity(caps.d, caps.m))

\* ------------------------------------------------------------ initial state
NoArg == [kind |-> "none"]
NoHost == [kind |-> "none"]

Init ==
    /\ op = "none"
    /\ pc = "idle"
    /\ arg = NoArg
    /\ host = NoHost
    /\ i = 0
    /\ list = <<>>
    /\ calls = <<>>
    /\ result = Pending

\* The operation has returned (or panicked); the caller drops what it got and
\* is ready for its next call.
Return ==
    /\ pc = "done"
    /\ op' = "none"
    /\ pc' = "idle"
    /\ arg' = NoArg
    /\ host' = NoHost
    /\ i' = 0
    /\ list' = <<>>
    /\ calls' = <<>>
    /\ result' = Pending

\* --------------------------------------------- interface names given to the parser
\* \\?\DISPLAY#<d>#<m>#{<g>}
InterfaceName(d, m, g) ==
    Prefix \o <<Hash>> \o d \o <<Hash>> \o m \o <<Hash, LBrace>> \o g \o <<RBrace>>

DriverIdChars == {65, 57}            \* A 9
MonitorIdChars == {100, 38}          \* d &
GuidChars == {45, 35, 125, 10}       \* - # } and a line feed
DriverIds == SeqsUpTo(DriverIdChars, 1, MaxIdLen)
MonitorIds == SeqsUpTo(MonitorIdChars, 1, MaxIdLen)
GuidTexts == SeqsUpTo(GuidChars, 0, MaxGuidLen)
PlainGuids == SeqsUpTo({45}, 0, MaxGuidLen)

BadDriverChars == {97, 38, 45}       \* a & -
BadMonitorChars == {45, 123, 32}     \* - { space
ExtraTexts == {<<120>>, <<10>>, <<125, 120>>}   \* x, a line feed, }x

ParseArg(kind, d, m, g, name) == [kind |-> kind, d |-> d, m |-> m, g |-> g, name |-> name]

\* \\?\DISPLAY#MEI96A2#4&289d1234&0&UID0#{e6f07b5f-ee97-4a90-b076-33f57bf4eaa7}
ExampleDriverId == <<77, 69, 73, 57, 54, 65, 50>>
ExampleMonitorId ==
    <<52, 38, 50, 56, 57, 100, 49, 50, 51, 52, 38, 48, 38, 85, 73, 68, 48>>
ExampleGuid ==
    <<101, 54, 102, 48, 55, 98, 53, 102, 45, 101, 101, 57, 55, 45, 52, 97, 57, 48, 45, 98, 48, 55, 54, 45, 51, 51, 102, 53, 55,
      98, 102, 52, 101, 97, 97, 55>>

ExampleArg ==
    ParseArg("grammar", ExampleDriverId, ExampleMonitorId, ExampleGuid,
             InterfaceName(ExampleDriverId, ExampleMonitorId, ExampleGuid))

\* names of the documented grammar
GrammarArgs ==
    { ParseArg("grammar", d, m, g, InterfaceName(d, m, g)) :
        d \in DriverIds, m \in MonitorIds, g \in GuidTexts } \cup {ExampleArg}

\* a # segment is missing or empty
MissingSegmentArgs ==
    UNION { { ParseArg("missing_segment", d, m, g,
                Prefix \o <<Hash>> \o m \o <<Hash, LBrace>> \o g \o <<RBrace>>),
              ParseArg("missing_segment", d, m, g,
                Prefix \o <<Hash>> \o d \o <<Hash, LBrace>> \o g \o <<RBrace>>),
              ParseArg("missing_segment", d, m, g,
                Prefix \o <<Hash>> \o d \o <<Hash>> \o m),
              ParseArg("missing_segment", d, m, g, InterfaceName(<<>>, m, g)),
              ParseArg("missing_segment", d, m, g, InterfaceName(d, <<>>, g)),
              ParseArg("missing_segment", d, m, g,
                Prefix \o d \o <<Hash>> \o m \o <<Hash, LBrace>> \o g \o <<RBrace>>) } :
        d \in DriverIds, m \in MonitorIds, g \in PlainGuids }

\* one character of an id is outside its class
BadDriverIds ==
    UNION { { [d EXCEPT ![p] = c] : p \in DOMAIN d, c \in BadDriverChars } : d \in DriverIds }

BadMonitorIds ==
    UNION { { [m EXCEPT ![p] = c] : p \in DOMAIN m, c \in BadMonitorChars } : m \in MonitorIds }

BadDriverArgs ==
    { ParseArg("bad_driver", d, m, g, InterfaceName(d, m, g)) :
        d \in BadDriverIds, m \in MonitorIds, g \in PlainGuids }

BadMonitorArgs ==
    { ParseArg("bad_monitor", d, m, g, InterfaceName(d, m, g)) :
        d \in DriverIds, m \in BadMonitorIds, g \in PlainGuids }

\* the {..} around the GUID is missing, or only half of it is there
NoBracesArgs ==
    UNION { { ParseArg("no_braces", d, m, g,
                Prefix \o <<Hash>> \o d \o <<Hash>> \o m \o <<Hash>> \o g),
              ParseArg("no_braces", d, m, g,
                Prefix \o <<Hash>> \o d \o <<Hash>> \o m \o <<Hash, LBrace>> \o g),
              ParseArg("no_braces", d, m, g,
                Prefix \o <<Hash>> \o d \o <<Hash>> \o m \o <<Hash>> \o g \o <<RBrace>>) } :
        d \in DriverIds, m \in MonitorIds, g \in PlainGuids }

\* text before the prefix or after the closing brace
ExtraTextArgs ==
    UNION { { ParseArg("extra_text", d, m, g, x \o InterfaceName(d, m, g)),
              ParseArg("extra_text", d, m, g, InterfaceName(d, m, g) \o x) } :
        d \in DriverIds, m \in MonitorIds, g \in PlainGuids, x \in ExtraTexts }

DeviationKinds == {"missing_segment", "bad_driver", "bad_monitor", "no_braces", "extra_text"}

CallFromInterfaceName(a) ==
    /\ pc = "idle"
    /\ op' = "from_interface_name"
    /\ arg' = a
    /\ host' = NoHost
    /\ i' = 0
    /\ list' = <<>>
    /\ calls' = <<>>
    /\ result' = from_interface_name(a.name)
    /\ pc' = "done"

ParseGrammarName == pc = "idle" /\ \E a \in GrammarArgs : CallFromInterfaceName(a)

ParseDeviatingName ==
    pc = "idle" /\ \E a \in MissingSegmentArgs \cup BadDriverArgs \cup BadMonitorArgs
             \cup NoBracesArgs \cup ExtraTextArgs : CallFromInterfaceName(a)

\* =================================================== monitor.rs: Monitor::list
MONITORINFOF_PRIMARY == 1

RECURSIVE BitAnd(_, _)
BitAnd(a, b) ==
    IF a = 0 \/ b = 0 THEN 0
    ELSE (IF a % 2 = 1 /\ b % 2 = 1 THEN 1 ELSE 0) + 2 * BitAnd(a \div 2, b \div 2)

WinDisc == <<87, 105, 110, 68, 105, 115, 99>>                       \* WinDisc

\* \\.\DISPLAY<k> in the szDevice buffer, zero-terminated
DisplayBuffer(k) == <<92, 92, 46, 92, 68, 73, 83, 80, 76, 65, 89, 48 + k, 0>>

\* the placeholder name; the buffer keeps what an earlier, longer name left
\* behind the terminator
WinDiscBuffer == WinDisc \o <<0, 89, 49, 0>>

\* What GetMonitorInfoW reports for one virtual monitor.  `placeholder` and
\* `primary` say what the host means; szDevice and dwFlags are what the
\* program is given.  Bit 1 of dwFlags is a flag other than the primary one.
HostMonitor(k, placeholder, primary, other) ==
    [ placeholder |-> placeholder,
      primary     |-> primary,
      szDevice    |-> IF placeholder THEN WinDiscBuffer ELSE DisplayBuffer(k),
      dwFlags     |-> (IF primary THEN MONITORINFOF_PRIMARY ELSE 0) + (IF other THEN 2 ELSE 0) ]

\* The virtual monitors of a session, in enumeration order.  Windows
\* designates exactly one of the display monitors of a desktop as the primary
\* one ("the primary display monitor").
HostMonitorSeqs ==
    { ms \in UNION { [1..n -> [placeholder : BOOLEAN, primary : BOOLEAN, other : BOOLEAN]] :
                       n \in 0..MaxMonitors } :
        ms = <<>> \/ Cardinality({ k \in DOMAIN ms : ms[k].primary }) = 1 }

GdiHosts ==
    { [kind |-> "gdi",
       monitors |-> [k \in DOMAIN ms |->
                        HostMonitor(k, ms[k].placeholder, ms[k].primary, ms[k].other)]] :
        ms \in HostMonitorSeqs }

GetMonitorInfoW(h) == host.monitors[h]

GotPlaceholder == [kind |-> "GotPlaceholder"]
NoPrimary == [kind |-> "NoPrimary"]

IsPrimaryAlwaysMut(dwFlags) == TRUE

\* info.dwFlags & MONITORINFOF_PRIMARY != 0
IsPrimary(dwFlags) == BitAnd(dwFlags, MONITORINFOF_PRIMARY) # 0

IsPlaceholderNeverMut(name) == FALSE

\* name == "WinDisc"
IsPlaceholderName(name) == name = WinDisc

\* Monitor::get (rect and work_area are copied through and left out here)
Monitor_get(h) ==
    LET info == GetMonitorInfoW(h)
        name == wchars_to_string(info.szDevice)
    IN  IF IsPlaceholderName(name) THEN Err(GotPlaceholder)
        ELSE Ok([h |-> h, name |-> name, is_primary |-> IsPrimary(info.dwFlags)])

\* Monitor::list() or Monitor::primary() is entered: EnumDisplayMonitors starts
CallMonitorList(o, h) ==
    /\ pc = "idle"
    /\ op' = o
    /\ arg' = NoArg
    /\ host' = h
    /\ i' = 1
    /\ list' = <<>>
    /\ calls' = <<"EnumDisplayMonitors">>
    /\ result' = Pending
    /\ pc' = "list_enum"

CallList == pc = "idle" /\ \E h \in GdiHosts : CallMonitorList("list", h)

CallPrimary == pc = "idle" /\ \E h \in GdiHosts : CallMonitorList("primary", h)

\* the callback cb, run by EnumDisplayMonitors for the next monitor
MonitorListCallback ==
    /\ pc = "list_enum"
    /\ i <= Len(host.monitors)
    /\ list' = Append(list, Monitor_get(i))
    /\ calls' = Append(calls, "GetMonitorInfoW")
    /\ i' = i + 1
    /\ UNCHANGED <<op, pc, arg, host, result>>

\* list.into_iter().collect()
MonitorListCollect ==
    /\ pc = "list_enum"
    /\ op = "list"
    /\ i > Len(host.monitors)
    /\ result' = Collect(list)
    /\ pc' = "done"
    /\ UNCHANGED <<op, arg, host, i, list, calls>>

Monitor_primaryFirstEntryMut(listed) ==
    IF listed.tag = "Err" THEN listed
    ELSE IF listed.val = <<>> THEN Err(NoPrimary) ELSE Ok(listed.val[1])

\* Self::list()?.into_iter().find(|m| m.is_primary).ok_or(NoPrimary)
Monitor_primary(listed) ==
    IF listed.tag = "Err" THEN listed
    ELSE LET hits == { k \in DOMAIN listed.val : listed.val[k].is_primary }
         IN  IF hits = {} THEN Err(NoPrimary) ELSE Ok(listed.val[Min(hits)])

MonitorPrimaryFind ==
    /\ pc = "list_enum"
    /\ op = "primary"
    /\ i > Len(host.monitors)
    /\ result' = Monitor_primary(Collect(list))
    /\ pc' = "done"
    /\ UNCHANGED <<op, arg, host, i, list, calls>>

\* ============================================== lib.rs: Monitor::intersecting
NULL == 0

\* last-error codes a failed GetWindowDC leaves: ERROR_INVALID_WINDOW_HANDLE
\* and ERROR_ACCESS_DENIED
WindowErrorCodes == {1400, 5}

\* the interface name the host registers for its k-th monitor, and a name
\* whose driver id is in lower case
MonitorDriverId(k) == <<65, 48 + k>>                 \* A<k>
MonitorKeyId(k) == <<52, 38, 100, 48 + k>>         \* 4&d<k>
MonitorGuid == <<101, 54, 45, 97, 55>>             \* e6-a7
GoodDeviceID(k) == InterfaceName(MonitorDriverId(k), MonitorKeyId(k), MonitorGuid) \o <<0>>
BadDeviceID(k) == InterfaceName(<<97, 48 + k>>, MonitorKeyId(k), MonitorGuid) \o <<0>>

\* One monitor of the desktop: whether the window lies on it, what
\* GetMonitorInfoW reports, and what EnumDisplayDevicesW answers for its
\* device name ("good": a well-formed interface name, "bad": a malformed
\* one, "none": the call returns 0 and leaves the zeroed buffer).
DesktopMonitor(k, overlaps, dev) ==
    [ overlaps |-> overlaps,
      dev      |-> dev,
      szDevice |-> DisplayBuffer(k),
      dwFlags  |-> 0,
      status   |-> IF dev = "none" THEN 0 ELSE 1,
      DeviceID |-> IF dev = "good" THEN GoodDeviceID(k)
                   ELSE IF dev = "bad" THEN BadDeviceID(k)
                   ELSE <<0, 0>> ]

\* The desktop a window handle lives on: the device context GetWindowDC gives
\* (NULL when it fails, with the thread's last-error code), and the monitors.
\* An existing window lies on at least one monitor.
DesktopHosts ==
    { [kind |-> "desktop", dc |-> dc, lastError |-> e,
       monitors |-> [k \in DOMAIN ms |-> DesktopMonitor(k, ms[k].overlaps, ms[k].dev)]] :
        dc \in {NULL, 1}, e \in WindowErrorCodes,
        ms \in { m \in UNION { [1..n -> [overlaps : BOOLEAN, dev : {"good", "bad", "none"}]] :
                                 n \in 0..MaxMonitors } :
                   m = <<>> \/ \E k \in DOMAIN m : m[k].overlaps } }

\* GetWindowDC(window)
GetWindowDC(window) == host.dc

\* WinError::last(): GetLastError()
WinError_last == host.lastError

\* EnumDisplayMonitors(hdc, NULL, cb, data): the handles the callback is run
\* for, in order.  With a NULL hdc these are all monitors of the desktop; with
\* a device context, those that intersect its visible region.
RECURSIVE MonitorsFrom(_, _)
MonitorsFrom(hdc, k) ==
    IF k > Len(host.monitors) THEN <<>>
    ELSE (IF hdc = NULL \/ host.monitors[k].overlaps THEN <<k>> ELSE <<>>)
         \o MonitorsFrom(hdc, k + 1)

EnumDisplayMonitors(hdc) == MonitorsFrom(hdc, 1)

\* EnumDisplayDevicesW(&info.szDevice[0], 0, &mut interface_name, EDD_GET_DEVICE_INTERFACE_NAME)
EnumDisplayDevicesW(szDevice) ==
    LET k == CHOOSE k \in DOMAIN host.monitors : host.monitors[k].szDevice = szDevice
    IN  [status |-> host.monitors[k].status, DeviceID |-> host.monitors[k].DeviceID]

ListIntersecting(window, source) ==
    [kind |-> "ListIntersecting", window |-> window, source |-> source]

\* Monitor::intersecting(window) up to the start of the enumeration.  The
\* device context obtained for the window is not handed to EnumDisplayMonitors.
CallIntersecting(w, h) ==
    /\ pc = "idle"
    /\ op' = "intersecting"
    /\ arg' = [kind |-> "window", window |-> w]
    /\ host' = h
    /\ list' = <<>>
    /\ i' = 1
    /\ IF w = NULL                                \* assert!(!window.is_null())
         THEN /\ calls' = <<>>
              /\ result' = Panicked
              /\ pc' = "done"
       ELSE IF h.dc = NULL                        \* hdc.is_null()
         THEN /\ calls' = <<"GetWindowDC", "GetLastError">>
              /\ result' = Err(ListIntersecting(w, h.lastError))
              /\ pc' = "done"
       ELSE /\ calls' = <<"GetWindowDC", "EnumDisplayMonitors">>
            /\ result' = Pending
            /\ pc' = "isect_enum"

CallIntersectingWindow ==
    pc = "idle" /\ \E w \in {NULL, 7}, h \in DesktopHosts : CallIntersecting(w, h)

\* the callback cb of intersecting, run for the next enumerated monitor
IntersectingCallback ==
    /\ pc = "isect_enum"
    /\ i <= Len(EnumDisplayMonitors(NULL))
    /\ LET info == GetMonitorInfoW(EnumDisplayMonitors(NULL)[i])
           dev == EnumDisplayDevicesW(info.szDevice)
       IN  /\ calls' = calls \o <<"GetMonitorInfoW", "EnumDisplayDevicesW">>
           /\ IF dev.status = 0                   \* panic!()
                THEN /\ result' = Panicked
                     /\ pc' = "done"
                     /\ UNCHANGED <<list, i>>
                ELSE /\ list' = Append(list, from_interface_name(wchars_to_string(dev.DeviceID)))
                     /\ i' = i + 1
                     /\ UNCHANGED <<result, pc>>
    /\ UNCHANGED <<op, arg, host>>

\* monitors.into_iter().collect()
IntersectingCollect ==
    /\ pc = "isect_enum"
    /\ i > Len(EnumDisplayMonitors(NULL))
    /\ result' = Collect(list)
    /\ pc' = "done"
    /\ UNCHANGED <<op, arg, host, i, list, calls>>

\* ============================================ display.rs: DisplayDevice::list
DISPLAY_DEVICE_ATTACHED_TO_DESKTOP == 1
DISPLAY_DEVICE_PRIMARY_DEVICE == 4

\* the bit positions of the flags that `State` declares
StateBits == {0, 1, 2, 3, 4, 5, 6, 19, 21, 24, 25, 26, 27}

RECURSIVE OnlyKnownBits(_, _)
OnlyKnownBits(flags, pos) ==
    IF flags = 0 THEN TRUE
    ELSE (flags % 2 = 0 \/ pos \in StateBits) /\ OnlyKnownBits(flags \div 2, pos + 1)

\* State::from_bits(display.StateFlags)
State_from_bits(flags) ==
    IF OnlyKnownBits(flags, 0) THEN [some |-> TRUE, bits |-> flags] ELSE [some |-> FALSE]

\* What EnumDisplayDevicesW(NULL, n, ..) answers for the indices 0, 1, ..:
\* answers[n + 1] is "none" where the call returns 0, else the kind of device.
\* Every index past the end of `answers` returns 0.
DeviceAnswers == SeqsUpTo({"none", "attached", "primary"}, 0, MaxDevices)

DeviceHosts == { [kind |-> "devices", answers |-> a] : a \in DeviceAnswers }

DeviceStateFlags(kind) ==
    IF kind = "primary"
    THEN DISPLAY_DEVICE_ATTACHED_TO_DESKTOP + DISPLAY_DEVICE_PRIMARY_DEVICE
    ELSE DISPLAY_DEVICE_ATTACHED_TO_DESKTOP

\* EnumDisplayDevicesW(ptr::null(), n, &mut display, 0)
EnumDisplayDevicesW_at(n) ==
    IF n + 1 \in DOMAIN host.answers /\ host.answers[n + 1] # "none"
    THEN [status |-> 1,
          DeviceName |-> DisplayBuffer(n + 1),
          StateFlags |-> DeviceStateFlags(host.answers[n + 1])]
    ELSE [status |-> 0]

\* the DisplayDevice pushed for one answer (string, id and key are decoded
\* like name and left out here)
DisplayDevice_new(display) ==
    [name |-> wchars_to_string(display.DeviceName),
     state |-> State_from_bits(display.StateFlags).bits,
     ffi_device |-> display.DeviceName]

NextDeviceIndexSkipMut(n) == n + 2

\* n += 1
NextDeviceIndex(n) == n + 1

CallDisplayList(h) ==
    /\ pc = "idle"
    /\ op' = "display_list"
    /\ arg' = NoArg
    /\ host' = h
    /\ i' = 0                                     \* let mut n = 0
    /\ list' = <<>>
    /\ calls' = <<>>
    /\ result' = Pending
    /\ pc' = "dd_loop"

CallDisplayDeviceList == pc = "idle" /\ \E h \in DeviceHosts : CallDisplayList(h)

\* one evaluation of the while condition, and the loop body when it holds
DisplayListStep ==
    /\ pc = "dd_loop"
    /\ i <= MaxDevices + 1
    /\ LET display == EnumDisplayDevicesW_at(i)
       IN  /\ calls' = Append(calls, i)
           /\ IF display.status = 0
                THEN /\ result' = Ok(list)
                     /\ pc' = "done"
                     /\ UNCHANGED <<list, i>>
              ELSE IF ~State_from_bits(display.StateFlags).some   \* .expect(..)
                THEN /\ result' = Panicked
                     /\ pc' = "done"
                     /\ UNCHANGED <<list, i>>
              ELSE /\ list' = Append(list, DisplayDevice_new(display))
                   /\ i' = NextDeviceIndex(i)
                   /\ UNCHANGED <<result, pc>>
    /\ UNCHANGED <<op, arg, host>>

\* ===================================================== lib.rs: Monitor::all
\* The registry under SYSTEM\CurrentControlSet\Enum\DISPLAY: whether the root
\* opens, and for each driver entry whether enumerating it succeeds, whether
\* its key opens, and which of its sub-key entries can be read.
RegistryDriver ==
    { d \in [enumOk : BOOLEAN, openOk : BOOLEAN, subkeys : SeqsUpTo(BOOLEAN, 0, MaxSubKeys)] :
        \* what lies behind an entry that fails is never looked at
        (d.enumOk /\ d.openOk) \/ (d.subkeys = <<>> /\ (d.enumOk \/ d.openOk)) }

RegistryDrivers == SeqsUpTo(RegistryDriver, 0, MaxDrivers)

RegistryHosts ==
    { [kind |-> "registry", rootOk |-> r, drivers |-> ds] :
        r \in BOOLEAN, ds \in RegistryDrivers }

\* the name of the k-th driver key and of the j-th sub-key of a driver
DriverKeyName(k) == <<77, 69, 73, 48 + k>>          \* MEI<k>
SubKeyName(j) == <<52, 38, 85, 73, 68, 48 + j>>     \* 4&UID<j>

KeyError == [kind |-> "registry::key::Error"]
KeyIterError == [kind |-> "registry::iter::keys::Error"]

ListDisplayDrivers(source) == [kind |-> "ListDisplayDrivers", source |-> source]

ListMonitorsForDriver(driver_id, source) ==
    [kind |-> "ListMonitorsForDriver", driver_id |-> driver_id, source |-> source]

driver_keyIgnoresMissingMut(driver_id) ==
    LET ks == { k \in DOMAIN host.drivers : DriverKeyName(k) = driver_id }
    IN  IF ks = {} THEN Ok(<<>>)
        ELSE IF ~host.drivers[Min(ks)].openOk THEN Err(KeyError)
        ELSE Ok(host.drivers[Min(ks)].subkeys)

\* Monitor::driver_key: Hive::LocalMachine.open(LIST_PATH\driver_id)
driver_key(driver_id) ==
    LET ks == { k \in DOMAIN host.drivers : DriverKeyName(k) = driver_id }
    IN  IF ks = {} \/ ~host.drivers[Min(ks)].openOk
        THEN Err(KeyError)
        ELSE Ok(host.drivers[Min(ks)].subkeys)

\* the loop of for_driver over driver_key.keys(): an entry that is an Err is
\* logged and skipped
RECURSIVE ForDriverFrom(_, _, _)
ForDriverFrom(driver_id, keys, j) ==
    IF j > Len(keys) THEN <<>>
    ELSE (IF keys[j] THEN <<MonitorIdentity(driver_id, SubKeyName(j))>> ELSE <<>>)
         \o ForDriverFrom(driver_id, keys, j + 1)

for_driverFailsOnSubKeyMut(driver_id) ==
    LET key == driver_key(driver_id)
    IN  IF key.tag = "Err" THEN Err(ListMonitorsForDriver(driver_id, key.err))
        ELSE IF \E j \in DOMAIN key.val : ~key.val[j]
             THEN Err(ListMonitorsForDriver(driver_id, KeyIterError))
        ELSE Ok(ForDriverFrom(driver_id, key.val, 1))

for_driverSkipsDriverMut(driver_id) ==
    LET key == driver_key(driver_id)
    IN  IF key.tag = "Err" THEN Ok(<<>>)
        ELSE Ok(ForDriverFrom(driver_id, key.val, 1))

\* Monitor::for_driver
for_driver(driver_id) ==
    LET key == driver_key(driver_id)
    IN  IF key.tag = "Err" THEN Err(ListMonitorsForDriver(driver_id, key.err))
        ELSE Ok(ForDriverFrom(driver_id, key.val, 1))

\* Monitor::all() up to the start of the loop over drivers.keys()
CallAll(h) ==
    /\ pc = "idle"
    /\ op' = "all"
    /\ arg' = NoArg
    /\ host' = h
    /\ i' = 1
    /\ list' = <<>>
    /\ calls' = <<"open">>
    /\ IF h.rootOk
         THEN /\ result' = Pending
              /\ pc' = "all_loop"
         ELSE /\ result' = Err(ListDisplayDrivers(KeyError))
              /\ pc' = "done"

CallMonitorAll == pc = "idle" /\ \E h \in RegistryHosts : CallAll(h)

\* one turn of `for driver_key in drivers.keys()`
AllDriverStep ==
    /\ pc = "all_loop"
    /\ i <= Len(host.drivers)
    /\ IF ~host.drivers[i].enumOk                  \* driver_key.map_err(..)?
         THEN /\ result' = Err(ListDisplayDrivers(KeyIterError))
              /\ pc' = "done"
              /\ UNCHANGED <<list, i, calls>>
       ELSE LET monitors == for_driver(DriverKeyName(i))
            IN  /\ calls' = Append(calls, "open")
                /\ IF monitors.tag = "Err"         \* Self::for_driver(driver_id)?
                     THEN /\ result' = monitors
                          /\ pc' = "done"
                          /\ UNCHANGED <<list, i>>
                     ELSE /\ list' = list \o monitors.val   \* all_monitors.append
                          /\ i' = i + 1
                          /\ UNCHANGED <<result, pc>>
    /\ UNCHANGED <<op, arg, host>>

\* Ok(all_monitors)
AllReturn ==
    /\ pc = "all_loop"
    /\ i > Len(host.drivers)
    /\ result' = Ok(list)
    /\ pc' = "done"
    /\ UNCHANGED <<op, arg, host, i, list, calls>>

\* ==================================================== lib.rs: Monitor::edid
ValueError == [kind |-> "registry::value::Error"]

GetParams(monitor, source) == [kind |-> "GetParams", monitor |-> monitor, source |-> source]

GetEdid(monitor, source) == [kind |-> "GetEdid", monitor |-> monitor, source |-> source]

\* the DeviceKey buffer of a display device that has a registry key, and of
\* one that has none (the buffer is left zeroed)
DeviceKeyBuffer == <<92, 82, 0>>
NoDeviceKeyBuffer == <<0, 0, 0>>

\* What the registry holds for one EDID lookup: the driver keys under the
\* enumeration root (as for Monitor::all), what opening `Device Parameters`
\* under a monitor key gives, and what reading the value EDID gives: data of
\* some registry type, or an error.  DeviceKey is the key buffer GDI reports
\* for the device behind the monitor: zeroed when no driver key exists.
EdidValues ==
    [type : {"Binary"}, bytes : SeqsUpTo({0, 255}, 0, MaxEdidLen)]
        \cup { [type |-> t, bytes |-> <<>>] : t \in {"String", "NotFound", "PermissionDenied"} }

EdidHosts ==
    { [kind |-> "edid_registry", drivers |-> ds, params |-> p, value |-> v,
       DeviceKey |-> IF ds = <<>> THEN NoDeviceKeyBuffer ELSE DeviceKeyBuffer] :
        ds \in { s \in SeqsUpTo(RegistryDriver, 0, 1) : \A k \in DOMAIN s : s[k].enumOk },
        p \in {"Ok", "NotFound", "PermissionDenied"},
        v \in EdidValues }

\* driver_key.open(&monitor.id, Security::Read): the sub-key of that name, when
\* it exists and may be read
RegKey_open(keys, name) ==
    LET js == { j \in DOMAIN keys : SubKeyName(j) = name }
    IN  IF js = {} \/ ~keys[Min(js)] THEN Err(KeyError) ELSE Ok(name)

\* monitor_key.open(r"Device Parameters", Security::Read)
OpenDeviceParameters == IF host.params = "Ok" THEN Ok("Device Parameters") ELSE Err(KeyError)

\* params_key.value(r"EDID")
RegKey_value ==
    IF host.value.type \in {"NotFound", "PermissionDenied"} THEN Err(ValueError)
    ELSE Ok(host.value)

\* Monitor::edid is entered; nothing has been done yet
CallEdid(m, h) ==
    /\ pc = "idle"
    /\ op' = "edid"
    /\ arg' = [kind |-> "monitor", monitor |-> m]
    /\ host' = h
    /\ i' = 0
    /\ list' = <<>>
    /\ calls' = <<>>
    /\ result' = Pending
    /\ pc' = "edid_driver"

CallMonitorEdid ==
    pc = "idle" /\ \E j \in 1..MaxSubKeys, h \in EdidHosts :
                      CallEdid(MonitorIdentity(DriverKeyName(1), SubKeyName(j)), h)

\* helper: let driver_key = Monitor::driver_key(&monitor.driver_id)?
EdidOpenDriver ==
    /\ pc = "edid_driver"
    /\ calls' = Append(calls, "open driver")
    /\ IF driver_key(arg.monitor.driver_id).tag = "Err"
         THEN /\ result' = Err(GetParams(arg.monitor, driver_key(arg.monitor.driver_id).err))
              /\ pc' = "done"
         ELSE /\ pc' = "edid_monitor"
              /\ UNCHANGED result
    /\ UNCHANGED <<op, arg, host, i, list>>

\* helper: let monitor_key = driver_key.open(&monitor.id, Security::Read)?
EdidOpenMonitor ==
    /\ pc = "edid_monitor"
    /\ calls' = Append(calls, "open monitor")
    /\ LET key == RegKey_open(driver_key(arg.monitor.driver_id).val, arg.monitor.id)
       IN  IF key.tag = "Err"
             THEN /\ result' = Err(GetParams(arg.monitor, key.err))
                  /\ pc' = "done"
             ELSE /\ pc' = "edid_params"
                  /\ UNCHANGED result
    /\ UNCHANGED <<op, arg, host, i, list>>

\* helper: let data = monitor_key.open(r"Device Parameters", Security::Read)?
EdidOpenParams ==
    /\ pc = "edid_params"
    /\ calls' = Append(calls, "open Device Parameters")
    /\ IF OpenDeviceParameters.tag = "Err"
         THEN /\ result' = Err(GetParams(arg.monitor, OpenDeviceParameters.err))
              /\ pc' = "done"
         ELSE /\ pc' = "edid_value"
              /\ UNCHANGED result
    /\ UNCHANGED <<op, arg, host, i, list>>

\* .value(r"EDID").map_err(..)? and the match on the data read
EdidReadValue ==
    /\ pc = "edid_value"
    /\ calls' = Append(calls, "value EDID")
    /\ result' = IF RegKey_value.tag = "Err" THEN Err(GetEdid(arg.monitor, RegKey_value.err))
                 ELSE IF RegKey_value.val.type = "Binary" THEN Ok(RegKey_value.val.bytes)
                 ELSE Panicked                     \* unreachable!(..)
    /\ pc' = "done"
    /\ UNCHANGED <<op, arg, host, i, list>>

\* ===================================== display.rs: DisplayDevice::reg_values
INVALID_HANDLE_VALUE == -1
ERROR_SUCCESS == 0
ERROR_NO_MORE_ITEMS == 259

\* What SetupAPI and the registry answer for one device: the status of the
\* interface-name query, the device-info set, whether its first element can
\* be enumerated, the registry key of the device, how many sub-keys that key
\* has and the status that ends their enumeration.  lastError is the code the
\* failing call leaves in the thread's last-error slot; laterSets says whether
\* a call made after it writes a code of its own there.
SetupHosts ==
    { h \in [kind : {"setupapi"}, interface : {0, 1}, set : {INVALID_HANDLE_VALUE, 1},
             enumInfo : BOOLEAN, key : {INVALID_HANDLE_VALUE, 2},
             names : 0..MaxSubKeys, endStatus : {ERROR_NO_MORE_ITEMS, 5},
             lastError : {13, 259}, laterSets : BOOLEAN] :
        \* what lies behind a step that fails is never looked at
        /\ (h.interface = 0 => h.set = 1)
        /\ (h.interface = 0 \/ h.set = INVALID_HANDLE_VALUE) => h.enumInfo
        /\ (h.interface = 0 \/ h.set = INVALID_HANDLE_VALUE \/ ~h.enumInfo) => h.key = 2
        /\ (h.interface = 0 \/ h.set = INVALID_HANDLE_VALUE \/ ~h.enumInfo
              \/ h.key = INVALID_HANDLE_VALUE)
             => (h.names = 0 /\ h.endStatus = ERROR_NO_MORE_ITEMS)
        /\ (h.enumInfo /\ h.key = 2) => (h.lastError = 13 /\ ~h.laterSets) }

\* GetLastError() after the failing call and the calls made since (a later
\* call that writes the slot leaves ERROR_INVALID_HANDLE here)
GetLastError(h, since) ==
    IF since = <<>> \/ ~h.laterSets THEN h.lastError ELSE 6

\* Info::get(dev): the device-info set and its first element, or an error;
\* with the host calls made, in order
Info_get(h) ==
    IF h.interface = 0                             \* dev.interface_name()?
      THEN [res |-> Err([kind |-> "GetNonexistentInterfaceName"]),
            calls |-> <<"EnumDisplayDevicesW">>]
    ELSE IF h.set = INVALID_HANDLE_VALUE
      THEN [res |-> Err([kind |-> "GetInfoSet"]),
            calls |-> <<"EnumDisplayDevicesW", "SetupDiGetClassDevsW">>]
    ELSE IF ~h.enumInfo                            \* Self::free_set(set); .. WinError::last()
      THEN [res |-> Err([kind |-> "GetInfoSetData",
                         source |-> GetLastError(h, <<"SetupDiDestroyDeviceInfoList">>)]),
            calls |-> <<"EnumDisplayDevicesW", "SetupDiGetClassDevsW", "SetupDiEnumDeviceInfo",
                        "SetupDiDestroyDeviceInfoList", "GetLastError">>]
    ELSE [res |-> Ok([set |-> h.set]),
          calls |-> <<"EnumDisplayDevicesW", "SetupDiGetClassDevsW", "SetupDiEnumDeviceInfo">>]

\* DisplayDevice::reg_key: the key of the device, or an error; `info` is
\* dropped, and its set destroyed, when the function returns
reg_key(h) ==
    LET info == Info_get(h)
    IN  IF info.res.tag = "Err" THEN info
        ELSE IF h.key = INVALID_HANDLE_VALUE
          THEN [res |-> Err([kind |-> "GetReg", source |-> GetLastError(h, <<"eprintln">>)]),
                calls |-> info.calls \o <<"SetupDiOpenDevRegKey", "eprintln", "GetLastError",
                                          "SetupDiDestroyDeviceInfoList">>]
        ELSE [res |-> Ok(h.key),
              calls |-> info.calls \o <<"SetupDiOpenDevRegKey", "eprintln",
                                        "SetupDiDestroyDeviceInfoList">>]

\* RegEnumKeyExW(parent, i, &mut key[0], &mut key_len, ..)
RegEnumKeyExW(n) ==
    IF n < host.names THEN [status |-> ERROR_SUCCESS, key |-> SubKeyName(n + 1)]
    ELSE [status |-> host.endStatus, key |-> <<>>]

\* reg_values up to the start of its loop: let parent = self.reg_key()?
CallRegValues(h) ==
    /\ pc = "idle"
    /\ op' = "reg_values"
    /\ arg' = [kind |-> "device", ffi_device |-> DisplayBuffer(1)]
    /\ host' = h
    /\ i' = 0                                      \* let mut i = 0
    /\ list' = <<>>                                \* let mut keys = vec![]
    /\ calls' = reg_key(h).calls
    /\ IF reg_key(h).res.tag = "Err"
         THEN /\ result' = reg_key(h).res
              /\ pc' = "done"
         ELSE /\ result' = Pending
              /\ pc' = "rv_loop"

CallDeviceRegValues == pc = "idle" /\ \E h \in SetupHosts : CallRegValues(h)

\* one turn of the loop of reg_values, and what follows the loop
RegValuesStep ==
    /\ pc = "rv_loop"
    /\ LET e == RegEnumKeyExW(i)
       IN  IF e.status = ERROR_SUCCESS
             THEN /\ list' = Append(list, from_utf16_lossy(e.key))
                  /\ i' = i + 1
                  /\ calls' = Append(calls, "RegEnumKeyExW")
                  /\ UNCHANGED <<result, pc>>
           ELSE IF e.status = ERROR_NO_MORE_ITEMS  \* break; RegCloseKey(parent); Ok(keys)
             THEN /\ calls' = calls \o <<"RegEnumKeyExW", "RegCloseKey">>
                  /\ result' = Ok(list)
                  /\ pc' = "done"
                  /\ UNCHANGED <<list, i>>
           ELSE /\ calls' = Append(calls, "RegEnumKeyExW")   \* return Err(GetReg(status.into()))
                /\ result' = IF e.status > 0 THEN Err([kind |-> "GetReg", source |-> e.status])
                             ELSE Panicked
                /\ pc' = "done"
                /\ UNCHANGED <<list, i>>
    /\ UNCHANGED <<op, arg, host>>

\* ===================================== display.rs: DisplayDevice::colorspace
\* What GDI answers for one device: the device context CreateDCW gives, the
\* color space of that context, and the logical color space behind it.
ColorHosts ==
    { h \in [kind : {"gdi_color"}, dc : {NULL, 1}, ident : {NULL, 3}, logOk : BOOLEAN,
             lcsCSType : {"LCS_sRGB", "LCS_WINDOWS_COLOR_SPACE"}] :
        /\ h.dc = NULL => h.ident = 3
        /\ (h.dc = NULL \/ h.ident = NULL) => h.logOk
        /\ (h.dc = NULL \/ h.ident = NULL \/ ~h.logOk) => h.lcsCSType = "LCS_sRGB" }

\* DisplayDevice::colorspace (of the record returned, the space type)
CallColorspace(h) ==
    /\ pc = "idle"
    /\ op' = "colorspace"
    /\ arg' = [kind |-> "device", ffi_device |-> DisplayBuffer(1)]
    /\ host' = h
    /\ i' = 0
    /\ list' = <<>>
    /\ pc' = "done"
    /\ IF h.dc = NULL                              \* self.hdc()?
         THEN /\ calls' = <<"CreateDCW">>
              /\ result' = Err([kind |-> "CreateCtx"])
       ELSE IF h.ident = NULL                      \* .ok_or(GetColorSpace)?
         THEN /\ calls' = <<"CreateDCW", "GetColorSpace">>
              /\ result' = Err([kind |-> "GetColorSpace"])
       ELSE IF ~h.logOk
         THEN /\ calls' = <<"CreateDCW", "GetColorSpace", "GetLogColorSpaceW">>
              /\ result' = Err([kind |-> "GetColorSpace"])
       ELSE /\ calls' = <<"CreateDCW", "GetColorSpace", "GetLogColorSpaceW">>
            /\ result' = Ok([space_type |-> IF h.lcsCSType = "LCS_sRGB" THEN "Srgb" ELSE "Windows"])

CallDeviceColorspace == pc = "idle" /\ \E h \in ColorHosts : CallColorspace(h)

\* ================================================= lib.rs: wchars_to_string
\* The buffers handed to wchars_to_string: some units other than zero (a
\* letter, a high and a low surrogate), then, when the buffer is terminated,
\* a zero and whatever an earlier use left behind it.
TextUnits == {65, 55357, 56832}
TailUnits == {Nul, 66}

WideBuffers ==
    { [kind |-> "wchars", text |-> t, terminated |-> FALSE, tail |-> <<>>, wchars |-> t] :
        t \in SeqsUpTo(TextUnits, 0, MaxTextLen) }
    \cup
    { [kind |-> "wchars", text |-> t, terminated |-> TRUE, tail |-> r,
       wchars |-> t \o <<Nul>> \o r] :
        t \in SeqsUpTo(TextUnits, 0, MaxTextLen), r \in SeqsUpTo(TailUnits, 0, MaxTailLen) }

CallWcharsToString(a) ==
    /\ pc = "idle"
    /\ op' = "wchars_to_string"
    /\ arg' = a
    /\ host' = NoHost
    /\ i' = 0
    /\ list' = <<>>
    /\ calls' = <<>>
    /\ result' = wchars_to_string(a.wchars)
    /\ pc' = "done"

DecodeWideString == pc = "idle" /\ \E a \in WideBuffers : CallWcharsToString(a)

\* =============================================== display.rs: fxp230_to_f32
\* 64-bit integers are kept as their digits in base 2^15, lowest digit first.
LimbBase == 32768

\* const ONE_BILLION: u64 = 1_000_000_000, as digits: 18944 + 30517 * 2^15
ONE_BILLION == <<18944, 30517>>

\* `fxp as u64`: the i32 is sign-extended to 64 bits (5 digits, the highest
\* holding the top 4 bits)
i32_as_u64(fxp) ==
    LET q1 == fxp \div LimbBase
        q2 == q1 \div LimbBase
        q3 == q2 \div LimbBase
        q4 == q3 \div LimbBase
    IN  <<fxp % LimbBase, q1 % LimbBase, q2 % LimbBase, q3 % LimbBase, q4 % 16>>

\* digit k of u, zero outside u
Limb(u, k) == IF k \in DOMAIN u THEN u[k] ELSE 0

\* the digits k .. 7 of the full product u * ONE_BILLION
RECURSIVE MulFrom(_, _, _)
MulFrom(u, k, carry) ==
    IF k > 7 THEN <<>>
    ELSE LET col == Limb(u, k) * ONE_BILLION[1] + Limb(u, k - 1) * ONE_BILLION[2] + carry
         IN  <<col % LimbBase>> \o MulFrom(u, k + 1, col \div LimbBase)

\* whether a product needs more than 64 bits
Overflows(p) == p[5] >= 16 \/ p[6] # 0 \/ p[7] # 0

\* fxp230_to_f32: n = (fxp as u64 * ONE_BILLION) / TWO_THIRTY, the quotient
\* n / 10^9 being returned as an f32.  A product that does not fit 64 bits
\* panics in a build with overflow checks and wraps in one without.
\* TWO_THIRTY is 2^30: the division drops the two lowest digits.
fxp230_to_f32(fxp, overflow_checks) ==
    LET p == MulFrom(i32_as_u64(fxp), 1, 0)
    IN  IF Overflows(p) /\ overflow_checks THEN Panicked
        ELSE Ok([n |-> <<p[3], p[4], p[5] % 16>>, wrapped |-> Overflows(p)])

\* the inputs of the unit test fxp_math, the ends of the i32 range, and the
\* values around zero
FxpInputs ==
    {0, 1, 2, 5, 20, 740329, 1073741823}
        \cup {1073741824, 2147483647, -740329, -1073741824, -2147483647 - 1}
        \cup (-MaxSmallFxp)..MaxSmallFxp

BuildHosts == { [kind |-> "build", overflow_checks |-> c] : c \in BOOLEAN }

CallFxp230(x, h) ==
    /\ pc = "idle"
    /\ op' = "fxp230_to_f32"
    /\ arg' = [kind |-> "fxp", fxp |-> x]
    /\ host' = h
    /\ i' = 0
    /\ list' = <<>>
    /\ calls' = <<>>
    /\ result' = fxp230_to_f32(x, h.overflow_checks)
    /\ pc' = "done"

DecodeFxp230 == pc = "idle" /\ \E x \in FxpInputs, h \in BuildHosts : CallFxp230(x, h)

\* CieXyz::from decodes one coordinate after the other: here two of them
CallCieXyzFrom(x, y, h) ==
    /\ pc = "idle"
    /\ op' = "CieXyz_from"
    /\ arg' = [kind |-> "ciexyz", ciexyzX |-> x, ciexyzY |-> y]
    /\ host' = h
    /\ i' = 0
    /\ list' = <<>>
    /\ calls' = <<>>
    /\ result' = IF fxp230_to_f32(x, h.overflow_checks).tag = "Panic" THEN Panicked
                 ELSE IF fxp230_to_f32(y, h.overflow_checks).tag = "Panic" THEN Panicked
                 ELSE Ok([x |-> fxp230_to_f32(x, h.overflow_checks).val,
                          y |-> fxp230_to_f32(y, h.overflow_checks).val])
    /\ pc' = "done"

DecodeCieXyz ==
    pc = "idle" /\ \E x \in FxpInputs, y \in FxpInputs, h \in BuildHosts : CallCieXyzFrom(x, y, h)

\* ====================================== physical_monitor.rs: PhysicalMonitor::list
\* the description buffer of the k-th physical monitor: G<k>, zero-terminated
DescriptionBuffer(k) == <<71, 48 + k, Nul, Nul>>

\* What the host answers for one virtual monitor: whether the count query
\* succeeds and the count it reports, whether the array query succeeds, and
\* the last-error code a failing query leaves.
PhysicalHosts ==
    { h \in [kind : {"physical"}, countOk : BOOLEAN, len : 0..MaxPhysical, getOk : BOOLEAN,
             lastError : {6, 87}] :
        /\ ~h.countOk => (h.len = 0 /\ h.getOk)
        /\ (h.countOk /\ h.getOk) => h.lastError = 6 }

\* PhysicalMonitor::from_ffi
PhysicalMonitor_from_ffi(sys) ==
    [h |-> sys.hPhysicalMonitor,
     description |-> wchars_to_string(sys.szPhysicalMonitorDescription)]

\* GetPhysicalMonitorsFromHMONITOR(virt.h, len, &mut list[0]): the array filled
GetPhysicalMonitorsFromHMONITOR(len) ==
    [k \in 1..len |-> [hPhysicalMonitor |-> 100 + k,
                       szPhysicalMonitorDescription |-> DescriptionBuffer(k)]]

\* PhysicalMonitor::list(virt)
CallPhysicalList(h) ==
    /\ pc = "idle"
    /\ op' = "physical_list"
    /\ arg' = [kind |-> "virt", h |-> 1]
    /\ host' = h
    /\ i' = 0
    /\ list' = <<>>
    /\ pc' = "done"
    /\ IF ~h.countOk
         THEN /\ calls' = <<"GetNumberOfPhysicalMonitorsFromHMONITOR", "GetLastError">>
              /\ result' = Err([kind |-> "Listing", source |-> GetLastError(h, <<>>)])
       ELSE IF h.len = 0                           \* &mut list[0] of an empty vector
         THEN /\ calls' = <<"GetNumberOfPhysicalMonitorsFromHMONITOR">>
              /\ result' = Panicked
       ELSE IF ~h.getOk
         THEN /\ calls' = <<"GetNumberOfPhysicalMonitorsFromHMONITOR",
                            "GetPhysicalMonitorsFromHMONITOR", "GetLastError">>
              /\ result' = Err([kind |-> "Listing", source |-> GetLastError(h, <<>>)])
       ELSE /\ calls' = <<"GetNumberOfPhysicalMonitorsFromHMONITOR",
                          "GetPhysicalMonitorsFromHMONITOR">>
            /\ result' = Ok([k \in 1..h.len |->
                               PhysicalMonitor_from_ffi(GetPhysicalMonitorsFromHMONITOR(h.len)[k])])

ListPhysicalMonitors == pc = "idle" /\ \E h \in PhysicalHosts : CallPhysicalList(h)

Next ==
    \/ ListPhysicalMonitors
    \/ DecodeFxp230
    \/ DecodeCieXyz
    \/ DecodeWideString
    \/ CallDeviceRegValues
    \/ RegValuesStep
    \/ CallDeviceColorspace
    \/ CallMonitorEdid
    \/ EdidOpenDriver
    \/ EdidOpenMonitor
    \/ EdidOpenParams
    \/ EdidReadValue
    \/ ParseGrammarName
    \/ ParseDeviatingName
    \/ CallList
    \/ CallPrimary
    \/ MonitorListCallback
    \/ MonitorListCollect
    \/ MonitorPrimaryFind
    \/ CallIntersectingWindow
    \/ IntersectingCallback
    \/ IntersectingCollect
    \/ CallDisplayDeviceList
    \/ DisplayListStep
    \/ CallMonitorAll
    \/ AllDriverStep
    \/ AllReturn
    \/ Return

Spec == Init /\ [][Next]_vars

\* DisplayDevice::list is a plain loop on the caller's thread: once entered it
\* keeps running until it returns.
LiveSpec == Spec /\ WF_vars(DisplayListStep)

\* ------------------------------------------------------------------ claims
Parsed == op = "from_interface_name" /\ pc = "done"

\* C1 as stated: every name of the documented grammar parses to exactly its
\* driver id and monitor id, whatever stands between the braces.
C1_AnyGuidParses ==
    (Parsed /\ arg.kind = "grammar")
        => result = Ok(MonitorIdentity(arg.d, arg.m))

\* C1 amended: every name of the documented grammar whose text between the
\* braces holds no line feed parses to exactly its driver id and monitor id.
C1_GrammarNameParses ==
    (Parsed /\ arg.kind = "grammar" /\ LineFeed \notin Range(arg.g))
        => result = Ok(MonitorIdentity(arg.d, arg.m))

C1_Witness ==
    /\ Parsed /\ arg = ExampleArg
    /\ result = Ok(MonitorIdentity(ExampleDriverId, ExampleMonitorId))

\* C2: a name that deviates from the grammar (missing segment, character
\* outside the class of an id, no braces, extra text) fails with
\* InvalidInterface carrying the raw input, never with an identity.
C2_DeviationRejected ==
    (Parsed /\ arg.kind \in DeviationKinds)
        => result = Err(InvalidInterface(arg.name))

C2_Witness ==
    /\ Parsed /\ arg.kind = "bad_driver" /\ 97 \in Range(arg.d)
    /\ result = Err(InvalidInterface(arg.name))

\* ---------------------------------------------------------- Monitor::list
Listed == op = "list" /\ pc = "done"

\* what the host means: the positions of the monitors that are no placeholder
RealMonitors == { k \in DOMAIN host.monitors : ~host.monitors[k].placeholder }

\* the record the program should hold for the host's k-th monitor
ExpectedMonitor(k) ==
    [h |-> k,
     name |-> SubSeq(DisplayBuffer(k), 1, Len(DisplayBuffer(k)) - 1),
     is_primary |-> host.monitors[k].primary]

RECURSIVE ExpectedFrom(_)
ExpectedFrom(k) ==
    IF k > Len(host.monitors) THEN <<>>
    ELSE (IF k \in RealMonitors THEN <<ExpectedMonitor(k)>> ELSE <<>>) \o ExpectedFrom(k + 1)

\* the non-placeholder monitors in enumeration order
FilteredList == ExpectedFrom(1)

\* C3 as stated: list() succeeds with exactly the non-placeholder monitors in
\* enumeration order; a placeholder is left out and fails nothing.
C3_PlaceholderExcluded == Listed => result = Ok(FilteredList)

\* C3 amended: list() fails with GotPlaceholder as soon as one enumerated
\* monitor reports the placeholder name, and returns every monitor in
\* enumeration order when none does.
C3_PlaceholderFailsList ==
    Listed => result = (IF RealMonitors # DOMAIN host.monitors
                        THEN Err(GotPlaceholder)
                        ELSE Ok(FilteredList))

C3_Witness ==
    /\ Listed /\ Len(host.monitors) = 2
    /\ host.monitors[1].placeholder = FALSE /\ host.monitors[2].placeholder
    /\ result = Err(GotPlaceholder)

\* ------------------------------------------------------- Monitor::primary
PrimaryDone == op = "primary" /\ pc = "done"

\* C4 as stated: primary() fails with NoPrimary exactly when the filtered list
\* is empty, and otherwise returns a monitor of that list that is primary.
C4_NoPrimaryIffEmpty ==
    PrimaryDone =>
        IF FilteredList = <<>> THEN result = Err(NoPrimary)
        ELSE /\ result.tag = "Ok"
             /\ result.val.is_primary
             /\ \E k \in DOMAIN FilteredList : FilteredList[k] = result.val

\* C4 amended: primary() fails with GotPlaceholder when an enumerated monitor
\* reports the placeholder name; otherwise it fails with NoPrimary exactly
\* when the list holds no entry with is_primary (as when it is empty), and in
\* every other case returns the first entry of the list whose is_primary is true.
C4_PrimaryOfList ==
    PrimaryDone =>
        LET prim == { k \in DOMAIN FilteredList : FilteredList[k].is_primary }
        IN  IF RealMonitors # DOMAIN host.monitors THEN result = Err(GotPlaceholder)
            ELSE IF prim = {} THEN result = Err(NoPrimary)
            ELSE result = Ok(FilteredList[Min(prim)])

C4_Witness ==
    /\ PrimaryDone /\ Len(host.monitors) = 2
    /\ host.monitors[2].primary
    /\ result.tag = "Ok" /\ result.val.h = 2

Intersected == op = "intersecting" /\ pc = "done"

\* the monitors the window lies on
Overlapped == { k \in DOMAIN host.monitors : host.monitors[k].overlaps }

\* the identity behind the host's k-th monitor
IdentityOf(k) == MonitorIdentity(MonitorDriverId(k), MonitorKeyId(k))

\* C6: intersecting(window) returns only monitors the window overlaps; for a
\* window that lies on exactly one of several monitors the result is exactly
\* the identity of that monitor.
C6_OnlyOverlappingMonitors ==
    (Intersected /\ result.tag = "Ok") =>
        /\ \A j \in DOMAIN result.val : \E k \in Overlapped : result.val[j] = IdentityOf(k)
        /\ Cardinality(Overlapped) = 1 =>
              result.val = << IdentityOf(CHOOSE k \in Overlapped : TRUE) >>

\* the monitors the enumeration reached whose interface name does not parse
Malformed ==
    { k \in DOMAIN host.monitors :
        /\ host.monitors[k].dev = "bad"
        /\ \A j \in 1..(k - 1) : host.monitors[j].dev # "none" }

RawName(k) == SubSeq(BadDeviceID(k), 1, Len(BadDeviceID(k)) - 1)

\* C7: intersecting(window) propagates the first failure: without a device
\* context it fails with ListIntersecting before any monitor is enumerated;
\* otherwise, if the interface name of any enumerated monitor fails to parse,
\* it fails with the InvalidInterface error of the first such monitor; a
\* list is returned only complete.
C7_FirstFailurePropagates ==
    (Intersected /\ arg.window # NULL) =>
        /\ host.dc = NULL =>
              /\ result = Err(ListIntersecting(arg.window, host.lastError))
              /\ \A j \in DOMAIN calls : calls[j] \notin {"EnumDisplayMonitors", "GetMonitorInfoW"}
        /\ (host.dc # NULL /\ Malformed # {}) =>
              result = Err(InvalidInterface(RawName(Min(Malformed))))
        /\ result.tag = "Ok" => Len(result.val) = Len(host.monitors)
\* ----------------------------------------------------- DisplayDevice::list
\* the first index for which the host returns zero
FirstExhausted ==
    Min({ n \in 0..Len(host.answers) :
            n = Len(host.answers) \/ host.answers[n + 1] = "none" })

\* the device the host describes at index n
ExpectedDevice(n) ==
    [name |-> SubSeq(DisplayBuffer(n + 1), 1, Len(DisplayBuffer(n + 1)) - 1),
     state |-> IF host.answers[n + 1] = "primary" THEN 5 ELSE 1,
     ffi_device |-> DisplayBuffer(n + 1)]

C8_QueriesInOrder ==
    op = "display_list" =>
        /\ \A j \in DOMAIN calls : calls[j] = j - 1 /\ calls[j] <= FirstExhausted
        /\ pc = "done" =>
              /\ Len(calls) = FirstExhausted + 1
              /\ result = Ok([j \in 1..FirstExhausted |-> ExpectedDevice(j - 1)])

\* C8: DisplayDevice::list queries the indices 0, 1, 2, .. in increasing order,
\* never one beyond the first index for which the host returns zero, returns
\* one record per index that succeeded, in index order, and terminates.
C8_ListStopsAtExhaustion ==
    /\ [](C8_QueriesInOrder)
    /\ (op = "display_list" /\ pc = "dd_loop") ~> (op = "display_list" /\ pc = "done")

C8_Witness ==
    /\ op = "display_list" /\ pc = "done"
    /\ Len(host.answers) = 3 /\ host.answers[2] = "none" /\ host.answers[3] # "none"
    /\ calls = <<0, 1>>
    /\ Len(result.val) = 1

\* ------------------------------------------------------------ Monitor::all
AllDone == op = "all" /\ pc = "done"

\* the drivers whose entry cannot be enumerated or whose key cannot be opened
FailingDrivers ==
    { k \in DOMAIN host.drivers : ~host.drivers[k].enumOk \/ ~host.drivers[k].openOk }

\* the readable sub-keys of the drivers in ks, in traversal order, each with
\* its driver id
RECURSIVE ReadableFrom(_, _, _)
ReadableFrom(ks, k, j) ==
    IF k > Len(host.drivers) THEN <<>>
    ELSE IF k \notin ks \/ j > Len(host.drivers[k].subkeys) THEN ReadableFrom(ks, k + 1, 1)
    ELSE (IF host.drivers[k].subkeys[j]
          THEN <<[driver_id |-> DriverKeyName(k), id |-> SubKeyName(j)]>> ELSE <<>>)
         \o ReadableFrom(ks, k, j + 1)

\* C9: a monitor sub-key that cannot be read is skipped without failing the
\* call: an error is always that of the root or of a driver entry, and the
\* result holds every readable sub-key of every driver, in traversal order,
\* paired with its driver id.
C9_UnreadableSubKeySkipped ==
    AllDone =>
        /\ result.tag = "Err" => (~host.rootOk \/ FailingDrivers # {})
        /\ (host.rootOk /\ FailingDrivers = {}) =>
              result = Ok(ReadableFrom(DOMAIN host.drivers, 1, 1))

C9_Witness ==
    /\ AllDone /\ Len(host.drivers) = 2
    /\ host.drivers[1].subkeys = <<FALSE, TRUE>>
    /\ host.drivers[2].subkeys = <<TRUE, FALSE>>
    /\ result = Ok(<< [driver_id |-> DriverKeyName(1), id |-> SubKeyName(2)],
                      [driver_id |-> DriverKeyName(2), id |-> SubKeyName(1)] >>)

\* C10 as stated: all() fails only when the root cannot be opened or when
\* every driver fails; a single failing driver is filtered out and the
\* monitors of the remaining drivers are returned.
C10_FailingDriverFiltered ==
    AllDone =>
        IF ~host.rootOk \/ (host.drivers # <<>> /\ FailingDrivers = DOMAIN host.drivers)
        THEN result.tag = "Err"
        ELSE result = Ok(ReadableFrom(DOMAIN host.drivers \ FailingDrivers, 1, 1))

\* C10 amended: all() fails with ListDisplayDrivers when the root cannot be
\* opened, and also when any driver entry fails, even while other drivers are
\* readable: with ListDisplayDrivers if the first failing entry cannot be
\* enumerated, with ListMonitorsForDriver naming it if its key cannot be
\* opened.  It succeeds in every other case; only sub-keys are filtered.
C10_FirstFailingDriverFailsAll ==
    AllDone =>
        result = (IF ~host.rootOk THEN Err(ListDisplayDrivers(KeyError))
                  ELSE IF FailingDrivers = {} THEN Ok(ReadableFrom(DOMAIN host.drivers, 1, 1))
                  ELSE IF ~host.drivers[Min(FailingDrivers)].enumOk
                       THEN Err(ListDisplayDrivers(KeyIterError))
                  ELSE Err(ListMonitorsForDriver(DriverKeyName(Min(FailingDrivers)), KeyError)))

C10_Witness ==
    /\ AllDone /\ Len(host.drivers) = 2
    /\ FailingDrivers = {2} /\ host.drivers[2].enumOk
    /\ TRUE \in Range(host.drivers[1].subkeys)
    /\ result = Err(ListMonitorsForDriver(DriverKeyName(2), KeyError))

\* ----------------------------------------------------------- Monitor::edid
EdidDone == op = "edid" /\ pc = "done"

\* Option::None
None == [some |-> FALSE]

\* the device behind the monitor has no registry key: its key buffer starts
\* with a zero
NoRegistryKey == host.DeviceKey[1] = Nul

EdidOrder == <<"open driver", "open monitor", "open Device Parameters", "value EDID">>

\* whether the host lets the n-th step of EdidOrder succeed
EdidStepOk(n) ==
    IF n = 1 THEN host.drivers # <<>> /\ host.drivers[1].openOk
    ELSE IF n = 2 THEN /\ host.drivers # <<>>
                       /\ \E j \in DOMAIN host.drivers[1].subkeys :
                             SubKeyName(j) = arg.monitor.id /\ host.drivers[1].subkeys[j]
    ELSE IF n = 3 THEN host.params = "Ok"
    ELSE host.value.type = "Binary"

\* the first step the host fails, or 5 when it fails none
FirstFailedStep == Min({ n \in 1..5 : n = 5 \/ ~EdidStepOk(n) })

\* C12: the EDID lookup opens the driver key, the monitor sub-key and its
\* Device Parameters child and reads the value EDID, in this order; the first
\* step that fails (key not found, access denied, value absent, value not of
\* binary type) ends the call with an error value and no later step is
\* attempted; the call never aborts; when every step succeeds the bytes read
\* are returned unchanged.
C12_FirstFailureIsReturned ==
    op = "edid" =>
        /\ calls = SubSeq(EdidOrder, 1, Len(calls))
        /\ Len(calls) <= Min({4, FirstFailedStep})
        /\ pc = "done" =>
              /\ Len(calls) = Min({4, FirstFailedStep})
              /\ result.tag # "Panic"
              /\ IF FirstFailedStep = 5 THEN result = Ok(host.value.bytes)
                 ELSE result.tag = "Err"

\* ------------------------------------------------------------ handles
\* how often the running operation has made the host call `name`
Count(name) == Cardinality({ j \in DOMAIN calls : calls[j] = name })

\* device contexts, device-info sets and registry keys the running operation
\* holds: those the host has given it less those it has given back
OpenContexts ==
    (IF host.dc # NULL /\ Count("GetWindowDC") + Count("CreateDCW") > 0 THEN 1 ELSE 0)
        - (Count("ReleaseDC") + Count("DeleteDC"))

OpenSets ==
    (IF host.set # INVALID_HANDLE_VALUE /\ Count("SetupDiGetClassDevsW") > 0 THEN 1 ELSE 0)
        - Count("SetupDiDestroyDeviceInfoList")

OpenKeys ==
    (IF host.key # INVALID_HANDLE_VALUE /\ Count("SetupDiOpenDevRegKey") > 0 THEN 1 ELSE 0)
        - Count("RegCloseKey")

\* C13: every handle acquired during a call (the window device context of
\* intersecting, the device context of colorspace, the registry key of
\* reg_values, the device-info set of Info::get) is released exactly once
\* before the call returns, with a value or with an error: no handle is open
\* when a call has returned, and none is released that is not held.
C13_HandlesReleasedOnce ==
    /\ (op \in {"intersecting", "colorspace"} /\ arg.kind # "none") =>
          /\ OpenContexts >= 0
          /\ (pc = "done" /\ result.tag \in {"Ok", "Err"}) => OpenContexts = 0
    /\ op = "reg_values" =>
          /\ OpenSets >= 0 /\ OpenKeys >= 0
          /\ (pc = "done" /\ result.tag \in {"Ok", "Err"}) => (OpenSets = 0 /\ OpenKeys = 0)

\* ------------------------------------------------------- wchars_to_string
Decoded == op = "wchars_to_string" /\ pc = "done"

\* no unit of s is half of a surrogate pair
NoSurrogates(s) == \A k \in DOMAIN s : ~IsHighSurrogate(s[k]) /\ ~IsLowSurrogate(s[k])

\* C14: wchars_to_string returns the decoding of exactly the code units that
\* precede the first zero unit of the buffer: units that are no surrogates are
\* returned as they are, so that a buffer of such units without a zero gives a
\* string of the length of the buffer; a buffer that starts with a zero or
\* holds only zeros gives the empty string; what follows the first zero has
\* no influence on the result.
C14_DecodesUpToFirstZero ==
    Decoded =>
        /\ result = from_utf16_lossy(arg.text)
        /\ NoSurrogates(arg.text) => result = arg.text
        /\ (NoSurrogates(arg.wchars) /\ Nul \notin Range(arg.wchars))
              => Len(result) = Len(arg.wchars)
        /\ (arg.wchars # <<>> /\ arg.wchars[1] = Nul) => result = <<>>
        /\ (\A k \in DOMAIN arg.wchars : arg.wchars[k] = Nul) => result = <<>>

C14_Witness ==
    /\ Decoded
    /\ arg.wchars = <<55357, 56832, 65, Nul, 66, Nul>>
    /\ result = <<128512, 65>>

\* ----------------------------------------------------------- fxp230_to_f32
FxpDone == op = "fxp230_to_f32" /\ pc = "done"

\* a number below 2^31 as three digits
Digits(x) == <<x % LimbBase, (x \div LimbBase) % LimbBase, x \div (LimbBase * LimbBase)>>

\* trunc(v * 10^9 / 2^30) for 0 <= v < 2^31, computed as trunc(v * 5^9 / 2^21)
\* from the base-1024 digits of v
TruncRatio(v) ==
    LET c == 1953125
        f0 == ((v % 1024) * c) \div 1024
        f1 == (f0 + ((v \div 1024) % 1024) * c) \div 1024
    IN  (v \div 1073741824) * 1000000000 + (f1 + ((v \div 1048576) % 1024) * c) \div 2

\* the intermediate integers the unit test expects
Documented ==
    { <<0, 0>>, <<1, 0>>, <<2, 1>>, <<5, 4>>, <<20, 18>>, <<740329, 689485>>,
      <<1073741823, 999999999>> }

\* C15: for every signed 32-bit input, fxp230_to_f32 computes the integer
\* trunc(value * 10^9 / 2^30) without overflow or wrap-around of its 64-bit
\* arithmetic and returns that integer over 10^9; the integers are 0, 0, 1, 4,
\* 18, 689485 and 999999999 for 0, 1, 2, 5, 20, 740329 and 1073741823.
C15_NoOverflowForAnyInput ==
    FxpDone =>
        /\ result.tag = "Ok"
        /\ ~result.val.wrapped
        /\ arg.fxp >= 0 => result.val.n = Digits(TruncRatio(arg.fxp))
        /\ \A d \in Documented : arg.fxp = d[1] => result.val.n = Digits(d[2])

\* whether the number with digits m is at most the number with digits n
DigitsLeq(m, n) ==
    \/ m[3] < n[3]
    \/ m[3] = n[3] /\ m[2] < n[2]
    \/ m[3] = n[3] /\ m[2] = n[2] /\ m[1] <= n[1]

\* C16: fxp230_to_f32 is monotonic non-decreasing: for signed 32-bit inputs
\* a <= b the intermediate integer of a is at most that of b.
C16_Monotonic ==
    (op = "CieXyz_from" /\ pc = "done" /\ arg.ciexyzX <= arg.ciexyzY) =>
        /\ result.tag = "Ok"
        /\ DigitsLeq(result.val.x.n, result.val.y.n)

\* --------------------------------------------------------------- last error
\* the host calls whose failure is reported through the last-error code
FailingCalls ==
    {"SetupDiEnumDeviceInfo", "SetupDiOpenDevRegKey", "GetWindowDC",
     "GetNumberOfPhysicalMonitorsFromHMONITOR", "GetPhysicalMonitorsFromHMONITOR"}

\* C17: whenever an error is built from the last-error code, the code is read
\* immediately after the failing host call, no other host call being made in
\* between: in Info::get and reg_key (both run by reg_values), in
\* intersecting and in PhysicalMonitor::list.
C17_LastErrorReadAtOnce ==
    op \in {"reg_values", "intersecting", "physical_list"} =>
        \A j \in DOMAIN calls :
            calls[j] = "GetLastError" => (j > 1 /\ calls[j - 1] \in FailingCalls)

\* ------------------------------------------------------ PhysicalMonitor::list
\* C18: PhysicalMonitor::list returns exactly n records in host order when
\* the host reports the count n >= 0 and both host calls succeed (the empty
\* list for n = 0), returns a Listing error when either host call fails, and
\* never aborts.
C18_ListsEveryCount ==
    (op = "physical_list" /\ pc = "done") =>
        /\ result.tag # "Panic"
        /\ (host.countOk /\ host.getOk) =>
              result = Ok([k \in 1..host.len |->
                             [h |-> 100 + k, description |-> <<71, 48 + k>>]])
        /\ (~host.countOk \/ ~host.getOk) =>
              result = Err([kind |-> "Listing", source |-> host.lastError])

====
